---- MODULE Spec2Model ----
(***************************************************************************)
(* Model of adws/adw_triggers/trigger_webhook.py: the GitHub webhook       *)
(* receiver (POST /gh-webhook), identifier recovery from issue comments    *)
(* (find_latest_adw_id_in_issue) and the persisted run state it guards.    *)
(*                                                                         *)
(* Text is modelled at token level: a body is a sequence of tokens, a      *)
(* substring test is a test on tokens, lower() maps each token to its      *)
(* lower-case form.  Python's None is the value None.                      *)
(***************************************************************************)
EXTENDS Integers, Sequences, FiniteSets, TLC

\* ------------------------------------------------------------------ bounds
\* Number of webhook deliveries in a run of the model.
MaxEvents == 3
\* Number of comments fetch_issue_comments returns in the recovery model.
MaxComments == 2
\* Number of output lines of the health check script.
MaxLines == 3

\* ------------------------------------------------------------- vocabulary
None == "None"
Absent == "<absent>"

ADW_BOT_IDENTIFIER == "[ADW-BOT]"

AVAILABLE_WORKFLOWS ==
  {"adw_plan", "adw_build", "adw_test", "adw_plan_build", "adw_plan_build_test"}

\* Identifier texts: full UUIDs and the 8-character form of the docstring.
UuidA == "75de9bea-1111-2222-3333-444444444444"
UuidB == "0c0ffee0-5555-6666-7777-888888888888"
ShortA == "75de9bea"
UuidIds == {UuidA, UuidB}
ShortIds == {ShortA}
TextIds == UuidIds \cup ShortIds

\* The identifiers make_adw_id hands out, in order of generation.
GenIdOf == <<"a1b2c3d4", "b2c3d4e5", "c3d4e5f6", "d4e5f6a7", "e5f6a7b8">>
GenIds == {GenIdOf[i] : i \in DOMAIN GenIdOf}
\* The identifier the pipeline test loads without ever saving it.
InvalidId == "invalid_id"
AllIds == TextIds \cup GenIds \cup {InvalidId}

\* The hexadecimal groups an identifier text is made of.
IdGroups(id) == IF id \in UuidIds THEN <<8, 4, 4, 4, 12>> ELSE <<8>>

\* issue.get("number") of a payload without an issue number (falsy).
NoIssue == 0
IssueNumbers == {7}
\* str(issue_number)
Str(n) == IF n = 7 THEN "7" ELSE None

VARIABLES
  stateStore,   \* persisted run state: identifier -> record or NoState
  procs,        \* the background processes launched so far (their commands)
  nRequests,    \* webhook deliveries received
  nAccepted,    \* responses with status "accepted"
  nLaunched,    \* subprocess.Popen calls that returned
  nGenerated,   \* identifiers generated for dispatch
  pc,           \* position of the handler: "idle" or "guard"
  req,          \* the request being handled, or the last one handled
  comments,     \* recovery model: the fetched comments (newest first)
  found,        \* recovery model: the result of the scan
  test,         \* state model: the pipeline test's position and locals
  health        \* health model: the script's run and the response to GET /health

vars == <<stateStore, procs, nRequests, nAccepted, nLaunched, nGenerated,
          pc, req, comments, found, test, health>>

\* ------------------------------------------------- identifier recovery
\* A comment body is a sequence of tokens.  A token is an occurrence of one
\* of the three textual forms around an identifier text, or plain text:
\*   json     "adw_id": "<id>"
\*   explicit adw_id: <id>
\*   prefix   <id>_ops:  <id>_sdlc_planner:  ...
Token(k, id) == [kind |-> k, id |-> id]
TextToken == Token("text", None)
IdTokens == {Token(k, id) : k \in {"json", "explicit", "prefix"}, id \in UuidIds}
             \cup {Token(k, ShortA) : k \in {"json", "explicit", "prefix"}}
\* Two forms in one comment, around different identifiers.
TokenPairs ==
  {<<p[1], p[2]>> : p \in {q \in IdTokens \X IdTokens :
                             /\ q[1].kind # q[2].kind
                             /\ q[1].id # q[2].id
                             /\ q[1].id \in UuidIds
                             /\ q[2].id \in UuidIds}}
CommentBodies ==
  {<<>>, <<TextToken>>} \cup {<<t>> : t \in IdTokens} \cup TokenPairs

\* Comment lists of at most n comments, newest first.
RECURSIVE ListsUpTo(_)
ListsUpTo(n) ==
  IF n = 0 THEN {<<>>}
  ELSE LET shorter == ListsUpTo(n - 1)
       IN  shorter \cup {<<b>> \o l : b \in CommentBodies, l \in {x \in shorter : Len(x) = n - 1}}
CommentLists == ListsUpTo(MaxComments)

\* What the environment gives the scan: whether extract_repo_path returns a
\* path, whether fetch_issue_comments returns or raises, and the comments.
FetchOf(repo, ok, l) == [repo_ok |-> repo, fetch_ok |-> ok, list |-> l]

\* The identifier sub-pattern shared by the three regular expressions:
\* [a-f0-9]{8}(?:-[a-f0-9]{4}){3}-[a-f0-9]{12}
PatternGroups == <<8, 4, 4, 4, 12>>
\* The patterns in the order the scan tries them.
Patterns == <<"json", "explicit", "prefix">>

TokenMatches(pattern, tok) ==
  tok.kind = pattern /\ IdGroups(tok.id) = PatternGroups

\* re.search(pattern, comment_body): group 1 of the leftmost match, or None.
ReSearch(pattern, body) ==
  LET hits == {i \in DOMAIN body : TokenMatches(pattern, body[i])}
  IN  IF hits = {} THEN None
      ELSE body[CHOOSE i \in hits : \A j \in hits : i <= j].id

\* Faulty variant: the match that stands first in the comment wins, whatever
\* its pattern.
ScanCommentLeftmost(body) ==
  LET hits == {i \in DOMAIN body : \E k \in DOMAIN Patterns : TokenMatches(Patterns[k], body[i])}
  IN  IF hits = {} THEN None
      ELSE body[CHOOSE i \in hits : \A j \in hits : i <= j].id

\* The inner loop: the patterns in order on one comment.
ScanComment(body) ==
  LET hit == {k \in DOMAIN Patterns : ReSearch(Patterns[k], body) # None}
  IN  IF hit = {} THEN None
      ELSE ReSearch(Patterns[CHOOSE k \in hit : \A j \in hit : k <= j], body)

\* Faulty variant: the patterns as the outer loop, so that a higher-priority pattern
\* in an older comment wins over a match in a newer one.
ScanCommentsByPattern(list) ==
  LET hit == {k \in DOMAIN Patterns :
                \E i \in DOMAIN list : ReSearch(Patterns[k], list[i]) # None}
  IN  IF hit = {} THEN None
      ELSE LET k == CHOOSE x \in hit : \A j \in hit : x <= j
               at == {i \in DOMAIN list : ReSearch(Patterns[k], list[i]) # None}
           IN  ReSearch(Patterns[k], list[CHOOSE i \in at : \A j \in at : i <= j])

\* The outer loop: the comments in the order fetched.
RECURSIVE ScanComments(_)
ScanComments(list) ==
  IF list = <<>> THEN None
  ELSE IF ScanComment(Head(list)) # None THEN ScanComment(Head(list))
  ELSE ScanComments(Tail(list))

\* An exception leaving a block, as the value of the block.
FindRaised == "<raised>"

\* The body of the try block: no repository path or no comments give None,
\* a failing fetch raises, else the scan decides.
FindTry(fetch) ==
  IF ~fetch.repo_ok THEN None
  ELSE IF ~fetch.fetch_ok THEN FindRaised
  ELSE IF fetch.list = <<>> THEN None
  ELSE ScanComments(fetch.list)

\* Faulty variant: no except clause, the exception reaches the caller.
FindWithoutExcept(fetch) == FindTry(fetch)

\* try: ... except Exception: return None
find_latest_adw_id_in_issue(fetch) ==
  IF FindTry(fetch) = FindRaised THEN None ELSE FindTry(fetch)

\* ------------------------------------------------------- event text
\* Body tokens.  The workflow names and "adw_notes" contain the substring
\* "adw_"; "ADW_PLAN" contains it only after lower().
TriggerTokens == AVAILABLE_WORKFLOWS \cup {"adw_notes"}
Lower(tok) ==
  IF tok = "ADW_PLAN" THEN "adw_plan"
  ELSE IF tok = "[ADW-BOT]" THEN "[adw-bot]"
  ELSE tok

\* A body that is JSON null.
Null == <<"\\null">>
Bodies ==
  { Null, <<>>,
    <<"please", "adw_plan_build">>, <<"adw_test">>,
    <<"adw_build">>, <<"adw_build", UuidA>>, <<"adw_build", ShortA>>,
    <<"adw_plan", UuidA>>, <<"adw_notes">>,
    <<"[ADW-BOT]", "adw_build", UuidA>>,
    <<"[adw-bot]", "ADW_PLAN">> }

\* "adw_" in body.lower()
TriggerIn(body) == \E i \in DOMAIN body : Lower(body[i]) \in TriggerTokens
\* ADW_BOT_IDENTIFIER in comment_body
BotMarkerIn(body) == \E i \in DOMAIN body : body[i] = ADW_BOT_IDENTIFIER

\* extract_adw_info(text, temp_id): the selector named first in the text and
\* the identifier written first in it; (None, None) without a selector.
FirstIn(body, S) ==
  LET hits == {i \in DOMAIN body : Lower(body[i]) \in S}
  IN  IF hits = {} THEN None
      ELSE Lower(body[CHOOSE i \in hits : \A j \in hits : i <= j])
\* Faulty variant: any word beginning with adw_ is returned as the selector.
ExtractAnyTrigger(body) ==
  IF FirstIn(body, TriggerTokens) = None THEN <<None, None>>
  ELSE <<FirstIn(body, TriggerTokens), FirstIn(body, TextIds)>>

extract_adw_info(body) ==
  IF FirstIn(body, AVAILABLE_WORKFLOWS) = None THEN <<None, None>>
  ELSE <<FirstIn(body, AVAILABLE_WORKFLOWS), FirstIn(body, TextIds)>>

\* ------------------------------------------------------------ events
Event(ok, et, act, num, body) ==
  [json_ok |-> ok, event_type |-> et, action |-> act, issue_number |-> num, body |-> body]
\* A delivery whose payload does not parse.
MalformedEvent == Event(FALSE, None, None, NoIssue, Null)
Events ==
  {MalformedEvent}
  \cup {Event(TRUE, "issues", "opened", n, b) : n \in IssueNumbers, b \in Bodies}
  \cup {Event(TRUE, "issue_comment", "created", n, b) : n \in IssueNumbers, b \in Bodies}
  \cup {Event(TRUE, x[1], x[2], n, <<"please", "adw_plan_build">>) :
          x \in {<<"issues", "closed">>, <<"issues", "created">>,
                 <<"issue_comment", "opened">>, <<"push", "">>},
          n \in {7}}
  \cup {Event(TRUE, x[1], x[2], NoIssue, b) :
          x \in {<<"issues", "opened">>, <<"issue_comment", "created">>},
          b \in {Null, <<"please", "adw_plan_build">>}}

\* --------------------------------------------------------- run state
StateData(id, num, branch, plan) ==
  [adw_id |-> id, issue_number |-> num, branch_name |-> branch, plan_file |-> plan,
   issue_class |-> Absent]

\* No record is persisted for the identifier.
NoState == StateData(Absent, Absent, Absent, Absent)

\* ADWState(adw_id): the record persisted for the identifier, or a new one.
ADWState(store, id) ==
  IF store[id] # NoState THEN store[id] ELSE StateData(id, Absent, Absent, Absent)
\* state.update(adw_id=..., issue_number=...)
StateUpdate(data, id, num) == [data EXCEPT !.adw_id = id, !.issue_number = num]
\* state.save(...)
StateSave(store, id, data) == [store EXCEPT ![id] = data]
\* state.data.get("branch_name") is truthy
HasBranch(data) == data.branch_name # Absent /\ data.branch_name # ""

\* ------------------------------------------------------- the handler
\* The request record: the event, the handler's locals and what it did.
\* The response bodies.
Response(status, num, id, w) ==
  [status |-> status, issue |-> num, adw_id |-> id, workflow |-> w]
NoResp == Response("none", NoIssue, None, None)
ErrorResponse == Response("error", NoIssue, None, None)
IgnoredResponse == Response("ignored", NoIssue, None, None)
AcceptedResponse(num, id, w) == Response("accepted", num, id, w)

NoFetch == FetchOf(FALSE, FALSE, <<>>)
NoData == StateData(None, Absent, Absent, Absent)
NoCmd == <<>>
NewRequest(ev) ==
  [ev |-> ev, workflow |-> None, provided_adw_id |-> None, adw_id |-> None,
   generated |-> FALSE, consulted |-> FALSE, fetch |-> NoFetch, detected |-> None,
   state_data |-> NoData, had_branch |-> FALSE, saved |-> FALSE, clobbered |-> FALSE,
   posted |-> <<>>, cmd |-> NoCmd, raised |-> "none", resp |-> NoResp]

\* Faulty variant: the exception is not caught, and no response is returned.
RaiseUncaught(r, step) == [r EXCEPT !.raised = step]

\* The except clause: the request ends with the error response.
Raise(r, step) == [r EXCEPT !.raised = step, !.resp = ErrorResponse]

IsIssueOpened(ev) ==
  ev.event_type = "issues" /\ ev.action = "opened" /\ ev.issue_number # NoIssue
IsCommentCreated(ev) ==
  ev.event_type = "issue_comment" /\ ev.action = "created" /\ ev.issue_number # NoIssue

Classified(w, x, step) == [workflow |-> w, provided |-> x, raised |-> step]
NotClassified == Classified(None, None, "none")

\* if "adw_" in body.lower(): workflow, provided_adw_id = extract_adw_info(...)
ClassifyText(body) ==
  IF TriggerIn(body)
  THEN {Classified(extract_adw_info(body)[1], extract_adw_info(body)[2], "none"),
        Classified(None, None, "classify")}
  ELSE {NotClassified}

\* Faulty variant: the bot marker is not looked for.
ClassifyCommentAnyway(body) == ClassifyText(body)

\* if ADW_BOT_IDENTIFIER in comment_body: workflow = None
ClassifyComment(body) ==
  IF BotMarkerIn(body) THEN {NotClassified} ELSE ClassifyText(body)

\* The classification of an event; a null body raises on .lower() or on "in".
ClassifyEvent(ev) ==
  IF IsIssueOpened(ev)
  THEN IF ev.body = Null THEN {Classified(None, None, "body")} ELSE ClassifyText(ev.body)
  ELSE IF IsCommentCreated(ev)
  THEN IF ev.body = Null THEN {Classified(None, None, "body")} ELSE ClassifyComment(ev.body)
  ELSE {NotClassified}

\* Faulty variant: recovery for every workflow without an identifier.
NeedsRecoveryAnyWorkflow(workflow, provided) == workflow # None /\ provided = None

\* Faulty variant: recovery for every adw_build, with an identifier or not.
NeedsRecoveryForBuild(workflow, provided) == workflow = "adw_build"

\* if workflow == "adw_build" and not provided_adw_id
NeedsRecovery(workflow, provided) == workflow = "adw_build" /\ provided = None

\* The comments the handler posts (make_issue_comment), as body tokens.
AutoDetectedComment(id) ==
  <<ADW_BOT_IDENTIFIER, "Auto-detected ADW ID", id, "adw_build">>
MissingIdComment ==
  <<ADW_BOT_IDENTIFIER, "Missing ADW ID", "adw_build", "adw_plan_build">>
\* Faulty variant: the start comment without the bot marker.
StartCommentUnmarked(w, id) == <<"ADW Webhook: Detected", w, id>>

StartComment(w, id) ==
  <<ADW_BOT_IDENTIFIER, "ADW Webhook: Detected", w, id>>
\* A posting: ok is whether make_issue_comment returned (it may raise).
Posting(kind, ok, body) == [kind |-> kind, ok |-> ok, body |-> body]

\* What fetch_issue_comments may give the handler.
RecoveryInputs ==
  { FetchOf(FALSE, TRUE, <<>>), FetchOf(TRUE, FALSE, <<>>), FetchOf(TRUE, TRUE, <<>>),
    FetchOf(TRUE, TRUE, << <<Token("explicit", ShortA)>> >>),
    FetchOf(TRUE, TRUE, << <<Token("prefix", UuidB)>>, <<Token("json", UuidA)>> >>),
    FetchOf(TRUE, TRUE, << <<TextToken>>, <<Token("json", UuidA)>> >>) }

\* Faulty variant: the workflow is kept when no identifier is detected.
RecoverKeepWorkflow(r, fetch, post_ok) ==
  LET detected == find_latest_adw_id_in_issue(fetch)
      r1 == [r EXCEPT !.consulted = TRUE, !.fetch = fetch, !.detected = detected]
  IN  IF detected = FindRaised THEN Raise(r1, "recovery")
      ELSE IF detected # None
      THEN [r1 EXCEPT !.provided_adw_id = detected,
                      !.posted = Append(@, Posting("auto_detected", post_ok,
                                                   AutoDetectedComment(detected)))]
      ELSE [r1 EXCEPT !.posted = Append(@, Posting("missing_id", post_ok, MissingIdComment))]

\* The auto-detection block: the request after it, for one fetch outcome and
\* one outcome of the posting. An exception leaving the call would reach the
\* handler's except clause.
Recover(r, fetch, post_ok) ==
  LET detected == find_latest_adw_id_in_issue(fetch)
      r1 == [r EXCEPT !.consulted = TRUE, !.fetch = fetch, !.detected = detected]
  IN  IF detected = FindRaised THEN Raise(r1, "recovery")
      ELSE IF detected # None
      THEN [r1 EXCEPT !.provided_adw_id = detected,
                      !.posted = Append(@, Posting("auto_detected", post_ok,
                                                   AutoDetectedComment(detected)))]
      ELSE [r1 EXCEPT !.workflow = None,
                      !.posted = Append(@, Posting("missing_id", post_ok, MissingIdComment))]

Resolve(r) ==
  IF NeedsRecovery(r.workflow, r.provided_adw_id)
  THEN {Recover(r, f, ok) : f \in RecoveryInputs, ok \in BOOLEAN}
  ELSE {r}

\* Faulty variant: a new identifier whatever was provided.
ResolveAdwIdFresh(provided, fresh) == fresh

\* adw_id = provided_adw_id or make_adw_id()
ResolveAdwId(provided, fresh) == IF provided # None THEN provided ELSE fresh

\* trigger_script = os.path.join(adws_dir, f"{workflow}.py")
ScriptOf(w) ==
  CASE w = "adw_plan" -> "adws/adw_plan.py"
    [] w = "adw_build" -> "adws/adw_build.py"
    [] w = "adw_test" -> "adws/adw_test.py"
    [] w = "adw_plan_build" -> "adws/adw_plan_build.py"
    [] w = "adw_plan_build_test" -> "adws/adw_plan_build_test.py"
    [] OTHER -> "adws/other.py"
\* cmd = ["uv", "run", trigger_script, str(issue_number), adw_id]
BuildCmd(w, num, id) == <<"uv", "run", ScriptOf(w), Str(num), id>>

\* Faulty variant: the process is launched before the logger is set up.
DispatchLaunchFirst(r) ==
  LET r0 == [r EXCEPT !.cmd = BuildCmd(r.workflow, r.ev.issue_number, r.adw_id)]
  IN  {Raise(r0, "logger")}
      \cup UNION { LET r1 == [r0 EXCEPT !.posted = Append(@, Posting("start", ok,
                                            StartComment(r.workflow, r.adw_id)))]
                   IN  { [r1 EXCEPT !.resp = AcceptedResponse(r.ev.issue_number, r.adw_id,
                                                              r.workflow)] }
                 : ok \in BOOLEAN }

\* Faulty variant: the start comment is posted outside a try block.
DispatchPostRaises(r) ==
  {Raise(r, "logger")}
  \cup UNION { LET r1 == [r EXCEPT !.posted = Append(@, Posting("start", ok,
                                        StartComment(r.workflow, r.adw_id)))]
               IN  IF ~ok THEN {Raise(r1, "comment")}
                   ELSE { Raise(r1, "popen"),
                          [r1 EXCEPT !.cmd = BuildCmd(r.workflow, r.ev.issue_number, r.adw_id),
                                     !.resp = AcceptedResponse(r.ev.issue_number, r.adw_id,
                                                               r.workflow)] }
             : ok \in BOOLEAN }

\* From setup_logger to the return: the logger, the start comment, Popen and
\* the accepted response; setup_logger and Popen may raise.
Dispatch(r) ==
  {Raise(r, "logger")}
  \cup UNION { LET r1 == [r EXCEPT !.posted = Append(@, Posting("start", ok,
                                        StartComment(r.workflow, r.adw_id)))]
               IN  { Raise(r1, "popen"),
                     [r1 EXCEPT !.cmd = BuildCmd(r.workflow, r.ev.issue_number, r.adw_id),
                                !.resp = AcceptedResponse(r.ev.issue_number, r.adw_id,
                                                          r.workflow)] }
             : ok \in BOOLEAN }

Outcome(r, store, at) == [r |-> r, store |-> store, pc |-> at]

\* Faulty variant: the state is initialized whatever it holds.
NeedsInitAlways(data) == TRUE

\* if not state.data.get("branch_name")
NeedsInit(data) == ~HasBranch(data)

\* Faulty variant: the state of a provided identifier is never initialized.
GuardOutcomesNoInit(r, store) == {Outcome(d, store, "idle") : d \in Dispatch(r)}

\* Faulty variant: one state file shared by all identifiers, so that the save
\* replaces every record there is.
GuardOutcomesSharedFile(r, store) ==
  IF NeedsInit(r.state_data)
  THEN LET data == StateUpdate(r.state_data, r.provided_adw_id, Str(r.ev.issue_number))
           saved == [id \in AllIds |->
                       IF id = r.provided_adw_id \/ store[id] # NoState
                       THEN data ELSE store[id]]
       IN  {Outcome(Raise(r, "state_save"), store, "idle")}
           \cup {Outcome(d, saved, "idle") :
                   d \in Dispatch([r EXCEPT !.state_data = data, !.saved = TRUE])}
  ELSE {Outcome(d, store, "idle") : d \in Dispatch(r)}

\* Faulty variant: the record is read again at the check, which makes the
\* check and the save one atomic step.
GuardOutcomesRecheck(r, store) ==
  LET now == ADWState(store, r.provided_adw_id)
  IN  IF NeedsInit(now)
      THEN LET data == StateUpdate(now, r.provided_adw_id, Str(r.ev.issue_number))
               saved == StateSave(store, r.provided_adw_id, data)
           IN  {Outcome(Raise(r, "state_save"), store, "idle")}
               \cup {Outcome(d, saved, "idle") :
                       d \in Dispatch([r EXCEPT !.state_data = data, !.saved = TRUE])}
      ELSE {Outcome(d, store, "idle") : d \in Dispatch(r)}

\* Faulty variant: the save writes a new record holding the two fields only.
GuardOutcomesNewRecord(r, store) ==
  IF NeedsInit(r.state_data)
  THEN LET data == StateData(r.provided_adw_id, Str(r.ev.issue_number), Absent, Absent)
           saved == StateSave(store, r.provided_adw_id, data)
       IN  {Outcome(Raise(r, "state_save"), store, "idle")}
           \cup {Outcome(d, saved, "idle") :
                   d \in Dispatch([r EXCEPT !.state_data = data, !.saved = TRUE])}
  ELSE {Outcome(d, store, "idle") : d \in Dispatch(r)}

\* Faulty variant: a failure after the save restores the store as it was.
GuardOutcomesRollback(r, store) ==
  IF NeedsInit(r.state_data)
  THEN LET data == StateUpdate(r.state_data, r.provided_adw_id, Str(r.ev.issue_number))
           saved == StateSave(store, r.provided_adw_id, data)
       IN  {Outcome(Raise(r, "state_save"), store, "idle")}
           \cup {Outcome(d, IF d.raised # "none" THEN store ELSE saved, "idle") :
                   d \in Dispatch([r EXCEPT !.state_data = data, !.saved = TRUE])}
  ELSE {Outcome(d, store, "idle") : d \in Dispatch(r)}

\* The continuation guard and what follows it, for a provided identifier.
GuardOutcomes(r, store) ==
  IF NeedsInit(r.state_data)
  THEN LET data == StateUpdate(r.state_data, r.provided_adw_id, Str(r.ev.issue_number))
           saved == StateSave(store, r.provided_adw_id, data)
       IN  {Outcome(Raise(r, "state_save"), store, "idle")}
           \cup {Outcome(d, saved, "idle") :
                   d \in Dispatch([r EXCEPT !.state_data = data, !.saved = TRUE,
                                             !.clobbered = HasBranch(store[r.provided_adw_id])])}
  ELSE {Outcome(d, store, "idle") : d \in Dispatch(r)}

\* The request once a workflow is selected: the identifier, and for a provided
\* identifier the construction of its state (the handler then stands at the
\* guard); without one the dispatch follows at once.
Selected(r, store, fresh) ==
  LET r1 == [r EXCEPT !.adw_id = ResolveAdwId(r.provided_adw_id, fresh),
                      !.generated = (r.provided_adw_id = None)]
  IN  IF r.provided_adw_id # None
      THEN { Outcome(Raise(r1, "state_load"), store, "idle"),
             Outcome([r1 EXCEPT !.state_data = ADWState(store, r.provided_adw_id),
                                !.had_branch = HasBranch(ADWState(store, r.provided_adw_id))],
                     store, "guard") }
      ELSE {Outcome(d, store, "idle") : d \in Dispatch(r1)}

\* The request as the classification leaves it.
ClassifiedRequest(ev, c) ==
  [NewRequest(ev) EXCEPT !.workflow = c.workflow, !.provided_adw_id = c.provided]

\* Faulty variant: a state record is written for the new identifier before
\* the workflow is looked at, so also for a request that is then ignored.
AfterResolveStateFirst(r, store, fresh) ==
  IF r.raised # "none" THEN {Outcome(r, store, "idle")}
  ELSE IF r.workflow # None THEN Selected(r, store, fresh)
  ELSE {Outcome([r EXCEPT !.resp = IgnoredResponse],
                StateSave(store, fresh, StateData(fresh, Absent, Absent, Absent)), "idle")}

\* if workflow: ... else: the ignored response.
AfterResolve(r, store, fresh) ==
  IF r.raised # "none" THEN {Outcome(r, store, "idle")}
  ELSE IF r.workflow # None THEN Selected(r, store, fresh)
  ELSE {Outcome([r EXCEPT !.resp = IgnoredResponse], store, "idle")}

\* The handler from the request to the state construction or to its return.
Handle(ev, store, fresh) ==
  IF ~ev.json_ok THEN {Outcome(Raise(NewRequest(ev), "json"), store, "idle")}
  ELSE UNION {
    IF c.raised # "none" THEN {Outcome(Raise(NewRequest(ev), c.raised), store, "idle")}
    ELSE UNION {AfterResolve(r, store, fresh) : r \in Resolve(ClassifiedRequest(ev, c))}
    : c \in ClassifyEvent(ev) }

\* ------------------------------------------------- background phases
PlanningScripts ==
  {ScriptOf(w) : w \in {"adw_plan", "adw_plan_build", "adw_plan_build_test"}}
\* The planning phase of a launched process persists branch_name and the plan.
PlanWrite(store, c) ==
  StateSave(store, c[5],
            [ADWState(store, c[5]) EXCEPT !.adw_id = c[5], !.issue_number = c[4],
                                          !.branch_name = "feat-issue-adw",
                                          !.plan_file = "specs/plan.md"])

\* ---------------------------------------------------------- actions
\* The pipeline test is not running; GET /health is not being served.
NoTest == [at |-> "off", adw_id |-> None, loaded |-> NoState, invalid |-> NoState]
NoHealth == [run |-> [kind |-> "none", returncode |-> 0, stdout |-> <<>>],
             resp |-> [status |-> "none"]]

Init ==
  /\ stateStore = [id \in AllIds |-> NoState]
  /\ procs = {}
  /\ nRequests = 0
  /\ nAccepted = 0
  /\ nLaunched = 0
  /\ nGenerated = 0
  /\ pc = "idle"
  /\ req = NewRequest(MalformedEvent)
  /\ comments = NoFetch
  /\ found = "unset"
  /\ test = NoTest
  /\ health = NoHealth

Commit(o) ==
  /\ req' = o.r
  /\ stateStore' = o.store
  /\ pc' = o.pc
  /\ procs' = IF o.r.cmd # NoCmd THEN procs \cup {o.r.cmd} ELSE procs
  /\ nLaunched' = IF o.r.cmd # NoCmd THEN nLaunched + 1 ELSE nLaunched
  /\ nAccepted' = IF o.r.resp.status = "accepted"
                  THEN nAccepted + 1 ELSE nAccepted

\* POST /gh-webhook, up to the construction of the state of a provided
\* identifier, or to the return when there is none.
HandleEvent ==
  /\ pc = "idle"
  /\ nRequests < MaxEvents
  /\ nGenerated < Len(GenIdOf)
  /\ \E ev \in Events :
       \E o \in Handle(ev, stateStore, GenIdOf[nGenerated + 1]) :
         /\ Commit(o)
         /\ nRequests' = nRequests + 1
         /\ nGenerated' = IF o.r.generated THEN nGenerated + 1 ELSE nGenerated
  /\ UNCHANGED <<comments, found, test, health>>

\* POST /gh-webhook, from the branch_name check to the return.
GuardAndDispatch ==
  /\ pc = "guard"
  /\ \E o \in GuardOutcomes(req, stateStore) : Commit(o)
  /\ UNCHANGED <<nRequests, nGenerated, comments, found, test, health>>

\* A launched planning workflow writes its state.
PlanningPhase ==
  /\ \E c \in procs :
       /\ c[3] \in PlanningScripts
       /\ ~HasBranch(ADWState(stateStore, c[5]))
       /\ stateStore' = PlanWrite(stateStore, c)
  /\ UNCHANGED <<procs, nRequests, nAccepted, nLaunched, nGenerated, pc, req,
                 comments, found, test, health>>

Next == HandleEvent \/ GuardAndDispatch \/ PlanningPhase

Spec == Init /\ [][Next]_vars

\* ------------------------------------------ the recovery scan alone
FetchInputs ==
  {FetchOf(TRUE, TRUE, l) : l \in CommentLists}
  \cup {FetchOf(FALSE, TRUE, l) : l \in {<<>>, << <<Token("json", UuidA)>> >>}}
  \cup {FetchOf(TRUE, FALSE, <<>>)}

InitFind ==
  /\ stateStore = [id \in AllIds |-> NoState]
  /\ procs = {}
  /\ nRequests = 0
  /\ nAccepted = 0
  /\ nLaunched = 0
  /\ nGenerated = 0
  /\ pc = "idle"
  /\ req = NewRequest(MalformedEvent)
  /\ comments \in FetchInputs
  /\ found = "unset"
  /\ test = NoTest
  /\ health = NoHealth

\* find_latest_adw_id_in_issue(issue_number) on the fetched comments.
FindStep ==
  /\ found = "unset"
  /\ found' = find_latest_adw_id_in_issue(comments)
  /\ UNCHANGED <<stateStore, procs, nRequests, nAccepted, nLaunched, nGenerated,
                 pc, req, comments, test, health>>

NextFind == FindStep

SpecFind == InitFind /\ [][NextFind]_vars

\* ------------------------------- the run state of one identifier alone
\* The records that may be persisted for an identifier when a continuation
\* arrives: none, or one written by earlier phases or by an earlier receiver.
PersistedRecords(id) ==
  {NoState}
  \cup { [adw_id |-> id, issue_number |-> n, branch_name |-> b, plan_file |-> p,
          issue_class |-> k] :
          n \in {Absent, "7", "8"}, b \in {Absent, "", "feat-issue-adw"},
          p \in {Absent, "specs/plan.md"}, k \in {Absent, "/chore"} }

\* A comment asking to continue the run UuidA on issue 7.
ContinueEvent == Event(TRUE, "issue_comment", "created", 7, <<"adw_build", UuidA>>)

\* ADWState.load(adw_id): the persisted record, or none.
ADWStateLoad(store, id) == store[id]

\* state = ADWState(id); state.update(adw_id, issue_number, issue_class); state.save()
TestUpdate(data, id, num, class) ==
  [data EXCEPT !.adw_id = id, !.issue_number = num, !.issue_class = class]

\* Faulty variant: the state is updated but never saved.
PipelineInitNoSave(store, id) == store

PipelineInit(store, id) ==
  StateSave(store, id, TestUpdate(ADWState(store, id), id, "998", "/chore"))

InitState ==
  /\ stateStore \in {[id \in AllIds |-> IF id = UuidA THEN rec ELSE NoState] :
                       rec \in PersistedRecords(UuidA)}
  /\ procs = {}
  /\ nRequests = 0
  /\ nAccepted = 0
  /\ nLaunched = 0
  /\ nGenerated = 0
  /\ pc = "idle"
  /\ req = NewRequest(MalformedEvent)
  /\ comments = NoFetch
  /\ found = "unset"
  /\ test = [NoTest EXCEPT !.at = "start"]
  /\ health = NoHealth

\* POST /gh-webhook for the continuation, up to the construction of its state.
ReceiveContinuation ==
  /\ pc = "idle"
  /\ nRequests = 0
  /\ \E o \in Handle(ContinueEvent, stateStore, GenIdOf[nGenerated + 1]) :
       /\ Commit(o)
       /\ nRequests' = nRequests + 1
  /\ UNCHANGED <<nGenerated, comments, found, test, health>>

\* test_pipeline_functionality: a new identifier, its state initialized and saved.
TestInit ==
  /\ test.at = "start"
  /\ nGenerated < Len(GenIdOf)
  /\ LET id == GenIdOf[nGenerated + 1]
     IN  /\ stateStore' = PipelineInit(stateStore, id)
         /\ test' = [test EXCEPT !.at = "saved", !.adw_id = id]
  /\ nGenerated' = nGenerated + 1
  /\ UNCHANGED <<procs, nRequests, nAccepted, nLaunched, pc, req, comments, found, health>>

\* The state is loaded; the test fails without a state or with another issue number.
TestLoad ==
  /\ test.at = "saved"
  /\ LET loaded == ADWStateLoad(stateStore, test.adw_id)
     IN  test' = [test EXCEPT !.loaded = loaded,
                              !.at = IF loaded = NoState \/ loaded.issue_number # "998"
                                     THEN "failed" ELSE "loaded"]
  /\ UNCHANGED <<stateStore, procs, nRequests, nAccepted, nLaunched, nGenerated, pc, req,
                 comments, found, health>>

\* ADWState.load("invalid_id")
TestLoadInvalid ==
  /\ test.at = "loaded"
  /\ test' = [test EXCEPT !.invalid = ADWStateLoad(stateStore, InvalidId), !.at = "done"]
  /\ UNCHANGED <<stateStore, procs, nRequests, nAccepted, nLaunched, nGenerated, pc, req,
                 comments, found, health>>

NextState ==
  \/ ReceiveContinuation
  \/ GuardAndDispatch
  \/ TestInit
  \/ TestLoad
  \/ TestLoadInvalid

SpecState == InitState /\ [][NextState]_vars

\* ------------------------------- the handler's comments delivered back
\* One delivery from outside.
ReceiveEvent ==
  /\ pc = "idle"
  /\ nRequests = 0
  /\ \E ev \in Events :
       \E o \in Handle(ev, stateStore, GenIdOf[nGenerated + 1]) :
         /\ Commit(o)
         /\ nRequests' = nRequests + 1
         /\ nGenerated' = IF o.r.generated THEN nGenerated + 1 ELSE nGenerated
  /\ UNCHANGED <<comments, found, test, health>>

\* A comment the handler posted arrives as an issue_comment/created delivery.
DeliverPosted ==
  /\ pc = "idle"
  /\ nRequests > 0
  /\ nRequests < MaxEvents
  /\ nGenerated < Len(GenIdOf)
  /\ \E i \in DOMAIN req.posted :
       /\ req.posted[i].ok
       /\ \E o \in Handle(Event(TRUE, "issue_comment", "created", req.ev.issue_number,
                                 req.posted[i].body),
                           stateStore, GenIdOf[nGenerated + 1]) :
            /\ Commit(o)
            /\ nRequests' = nRequests + 1
            /\ nGenerated' = IF o.r.generated THEN nGenerated + 1 ELSE nGenerated
  /\ UNCHANGED <<comments, found, test, health>>

NextLoop == ReceiveEvent \/ GuardAndDispatch \/ DeliverPosted

SpecLoop == Init /\ [][NextLoop]_vars

\* ------------------------------------------------------- GET /health
SERVICE == "adw-webhook-trigger"
WarningsHeader == "Warnings:"
ErrorsHeader == "Errors:"
NextStepsHeader == "Next Steps:"
\* Lines the script may print; an item line begins with "-" once stripped.
\* An item line that holds the Errors header.
ErrorsCountLine == "- Errors: 0"
OutputLines ==
  {WarningsHeader, ErrorsHeader, NextStepsHeader, "  - disk low", "- no token", "Overall: ok",
   ErrorsCountLine}
\* "<header>" in line
HasWarningsHeader(line) == line = WarningsHeader
HasErrorsHeader(line) == line \in {ErrorsHeader, ErrorsCountLine}
HasNextStepsHeader(line) == line = NextStepsHeader
\* line.strip().startswith("-")
IsItem(line) == line \in {"  - disk low", "- no token", ErrorsCountLine}
\* line.strip()[2:]
ItemText(line) ==
  IF line = "  - disk low" THEN "disk low"
  ELSE IF line = "- no token" THEN "no token"
  ELSE "Errors: 0"

\* Faulty variant: the Errors header does not end the capture of warnings.
RECURSIVE ScanOutputStickyWarnings(_, _, _, _)
ScanOutputStickyWarnings(lines, mode, warnings, errors) ==
  IF lines = <<>> THEN [warnings |-> warnings, errors |-> errors]
  ELSE LET line == Head(lines)
           rest == Tail(lines)
       IN  IF HasWarningsHeader(line) THEN ScanOutputStickyWarnings(rest, "warnings", warnings, errors)
           ELSE IF HasErrorsHeader(line)
           THEN ScanOutputStickyWarnings(rest, IF mode = "warnings" THEN mode ELSE "errors",
                                         warnings, errors)
           ELSE IF HasNextStepsHeader(line) THEN [warnings |-> warnings, errors |-> errors]
           ELSE IF mode = "warnings" /\ IsItem(line)
           THEN ScanOutputStickyWarnings(rest, mode, Append(warnings, ItemText(line)), errors)
           ELSE IF mode = "errors" /\ IsItem(line)
           THEN ScanOutputStickyWarnings(rest, mode, warnings, Append(errors, ItemText(line)))
           ELSE ScanOutputStickyWarnings(rest, mode, warnings, errors)

\* The loop over the output lines; mode is which list is being captured.
RECURSIVE ScanOutput(_, _, _, _)
ScanOutput(lines, mode, warnings, errors) ==
  IF lines = <<>> THEN [warnings |-> warnings, errors |-> errors]
  ELSE LET line == Head(lines)
       IN  IF HasWarningsHeader(line) THEN ScanOutput(Tail(lines), "warnings", warnings, errors)
           ELSE IF HasErrorsHeader(line) THEN ScanOutput(Tail(lines), "errors", warnings, errors)
           ELSE IF HasNextStepsHeader(line) THEN [warnings |-> warnings, errors |-> errors]
           ELSE IF mode = "warnings" /\ IsItem(line)
           THEN ScanOutput(Tail(lines), mode, Append(warnings, ItemText(line)), errors)
           ELSE IF mode = "errors" /\ IsItem(line)
           THEN ScanOutput(Tail(lines), mode, warnings, Append(errors, ItemText(line)))
           ELSE ScanOutput(Tail(lines), mode, warnings, errors)

\* What subprocess.run may do: return with an exit code and output, exceed
\* the timeout, or fail to run the script.
HealthRun(kind, code, out) == [kind |-> kind, returncode |-> code, stdout |-> out]
OutputsUpTo(n) == UNION {[1..k -> OutputLines] : k \in 0..n}
HealthRuns ==
  {HealthRun("completed", code, out) : code \in {0, 1}, out \in OutputsUpTo(MaxLines)}
  \cup {HealthRun("timeout", 0, <<>>), HealthRun("failed", 0, <<>>)}

\* Faulty variant: healthy when the output lists no errors, whatever the exit code.
HealthReportByErrors(run) ==
  LET scan == ScanOutput(run.stdout, "none", <<>>, <<>>)
      is_healthy == scan.errors = <<>>
  IN  [status |-> IF is_healthy THEN "healthy" ELSE "unhealthy",
       service |-> SERVICE,
       health_check |-> [success |-> is_healthy, warnings |-> scan.warnings,
                         errors |-> scan.errors,
                         details |-> "Run health_check.py directly for full report"]]

\* The body returned when the script ran to its end.
HealthReport(run) ==
  LET scan == ScanOutput(run.stdout, "none", <<>>, <<>>)
      is_healthy == run.returncode = 0
  IN  [status |-> IF is_healthy THEN "healthy" ELSE "unhealthy",
       service |-> SERVICE,
       health_check |-> [success |-> is_healthy, warnings |-> scan.warnings,
                         errors |-> scan.errors,
                         details |-> "Run health_check.py directly for full report"]]
HealthError(msg) == [status |-> "unhealthy", service |-> SERVICE, error |-> msg]

\* Faulty variant: a non-zero exit code is treated as a failure to run.
HealthResponseCheckExit(run) ==
  IF run.kind = "timeout" THEN HealthError("Health check timed out")
  ELSE IF run.kind = "failed" \/ run.returncode # 0 THEN HealthError("Health check failed")
  ELSE HealthReport(run)

\* The handler: the report, or one of the two except clauses.
HealthResponse(run) ==
  IF run.kind = "timeout" THEN HealthError("Health check timed out")
  ELSE IF run.kind = "failed" THEN HealthError("Health check failed")
  ELSE HealthReport(run)

InitHealth ==
  /\ stateStore = [id \in AllIds |-> NoState]
  /\ procs = {}
  /\ nRequests = 0
  /\ nAccepted = 0
  /\ nLaunched = 0
  /\ nGenerated = 0
  /\ pc = "idle"
  /\ req = NewRequest(MalformedEvent)
  /\ comments = NoFetch
  /\ found = "unset"
  /\ test = NoTest
  /\ health \in {[run |-> r, resp |-> NoHealth.resp] : r \in HealthRuns}

\* GET /health
HealthCheck ==
  /\ health.run.kind # "none"
  /\ health.resp = NoHealth.resp
  /\ health' = [health EXCEPT !.resp = HealthResponse(health.run)]
  /\ UNCHANGED <<stateStore, procs, nRequests, nAccepted, nLaunched, nGenerated, pc, req,
                 comments, found, test>>

NextHealth == HealthCheck

SpecHealth == InitHealth /\ [][NextHealth]_vars

\* ------------------------------------------------------------ claims
\* The request in req has returned.
Completed == pc = "idle" /\ req.resp.status # "none"
\* The (event type, action) pair and issue number of a triggering event.
TriggeringPair(ev) ==
  /\ <<ev.event_type, ev.action>> \in {<<"issues", "opened">>, <<"issue_comment", "created">>}
  /\ ev.issue_number # NoIssue
\* The substring "adw_" occurs in the body, whatever the case of the letters.
HasTriggerText(body) ==
  \E i \in DOMAIN body :
    body[i] \in AVAILABLE_WORKFLOWS \cup {"adw_notes", "ADW_PLAN"}

\* The classifier ran on the body of the request in req and returned: the
\* event is a triggering one, its body holds "adw_" and, for a comment, no bot
\* marker, and extract_adw_info did not raise.
ClassifierRan ==
  /\ Completed
  /\ req.ev.json_ok
  /\ TriggeringPair(req.ev)
  /\ req.ev.body # Null
  /\ HasTriggerText(req.ev.body)
  /\ ~(req.ev.event_type = "issue_comment"
        /\ \E i \in DOMAIN req.ev.body : req.ev.body[i] = "[ADW-BOT]")
  /\ req.raised # "classify"
\* What the classifier returned for it.
YieldedWorkflow == extract_adw_info(req.ev.body)[1]
YieldedId == extract_adw_info(req.ev.body)[2]

\* C4: the scan returns an identifier of the newest comment that matches any
\* of the three patterns, also when an older comment matches a pattern of
\* higher priority, and None exactly when no comment matches.
MatchedIds(body) ==
  {body[i].id : i \in {j \in DOMAIN body :
                        /\ body[j].kind \in {"json", "explicit", "prefix"}
                        /\ IdGroups(body[j].id) = <<8, 4, 4, 4, 12>>}}
C4_NewestMatchWins ==
  (found # "unset" /\ comments.repo_ok /\ comments.fetch_ok) =>
    LET l == comments.list
        m == {i \in DOMAIN l : MatchedIds(l[i]) # {}}
    IN  IF m = {} THEN found = None
        ELSE found \in MatchedIds(l[CHOOSE i \in m : \A j \in m : i <= j])
C4_Witness ==
  /\ found = UuidB
  /\ comments.list = << <<Token("prefix", UuidB)>>, <<Token("json", UuidA)>> >>

\* C1: an event received when the record of its identifier holds a non-empty
\* branch_name leaves the persisted state as it is: the handler's first part
\* writes nothing, and its second part neither saves nor changes the record.
C1_NoReinitialization ==
  [][ /\ (pc = "idle" /\ nRequests' # nRequests) => stateStore' = stateStore
      /\ (pc = "guard" /\ pc' = "idle" /\ req.had_branch) =>
           (~req'.saved /\ stateStore' = stateStore) ]_vars
C1_Witness ==
  /\ Completed
  /\ req.had_branch
  /\ req.consulted
  /\ req.resp.status = "accepted"
  /\ stateStore[req.adw_id].branch_name = "feat-issue-adw"

\* C2: a created comment whose body holds the bot marker is answered
\* "ignored" and launches no process, whatever else the body holds.
C2_BotCommentIgnored ==
  (/\ Completed
   /\ req.ev.json_ok
   /\ req.ev.event_type = "issue_comment"
   /\ req.ev.action = "created"
   /\ \E i \in DOMAIN req.ev.body : req.ev.body[i] = "[ADW-BOT]")
  => (req.resp.status = "ignored" /\ req.cmd = NoCmd)
C2_Witness ==
  /\ Completed
  /\ req.ev.event_type = "issue_comment"
  /\ req.ev.action = "created"
  /\ req.ev.issue_number = 7
  /\ req.ev.body = <<"[ADW-BOT]", "adw_build", UuidA>>
  /\ req.resp.status = "ignored"
  /\ nLaunched = 1

\* C3: adw_build without an explicit identifier, and a recovery that finds
\* none: no process, no state written, status "ignored".
C3_BuildWithoutIdIgnored ==
  (/\ ClassifierRan
   /\ YieldedWorkflow = "adw_build"
   /\ YieldedId = None
   /\ req.detected = None)
  => (/\ req.consulted
      /\ req.raised = "none"
      /\ req.resp.status = "ignored"
      /\ req.cmd = NoCmd
      /\ ~req.saved
      /\ req.adw_id = None)
C3_Witness ==
  /\ Completed
  /\ req.ev.body = <<"adw_build">>
  /\ req.consulted
  /\ req.fetch.list = << <<Token("explicit", ShortA)>> >>
  /\ req.detected = None
  /\ req.resp.status = "ignored"

\* C5: a request that has returned has one of the three outcomes, and one in
\* which a step raised has the outcome "error"; while the handler stands at
\* the guard nothing is returned yet.
C5_ExceptionsBecomeError ==
  /\ (pc = "idle" /\ nRequests > 0) =>
       /\ req.resp.status \in {"accepted", "ignored", "error"}
       /\ (req.raised # "none") <=> (req.resp.status = "error")
  /\ (pc = "guard") => (req.resp.status = "none" /\ req.raised = "none")
C5_Witness ==
  /\ Completed
  /\ req.raised = "popen"
  /\ req.saved
  /\ req.resp.status = "error"

\* C6: an event is dispatched only if it is a triggering event whose body
\* holds "adw_"; every other event is answered "ignored" and launches nothing.
C6_OnlyTriggersDispatch ==
  (Completed /\ req.ev.json_ok) =>
    /\ (req.cmd # NoCmd \/ req.resp.status = "accepted") =>
         (TriggeringPair(req.ev) /\ HasTriggerText(req.ev.body))
    /\ ~(TriggeringPair(req.ev) /\ HasTriggerText(req.ev.body)) =>
         (req.resp.status = "ignored" /\ req.cmd = NoCmd)

\* C7 as stated: every accepted event has a persisted record for its
\* identifier, also when the identifier was generated.
C7_Original ==
  (Completed /\ req.resp.status = "accepted") =>
    /\ stateStore[req.adw_id].adw_id = req.adw_id
    /\ stateStore[req.adw_id].issue_number = "7"
\* C7 as amended: an accepted event whose identifier was provided or recovered
\* has a persisted record holding adw_id and issue_number, saved by the handler
\* unless the record it read held a branch_name; for a generated identifier the
\* handler saves nothing.
C7_ProvidedIdHasState ==
  (Completed /\ req.resp.status = "accepted") =>
    IF req.generated
    THEN ~req.saved
    ELSE /\ stateStore[req.adw_id].adw_id = req.adw_id
         /\ stateStore[req.adw_id].issue_number = "7"
         /\ req.saved \/ req.state_data.branch_name = "feat-issue-adw"
C7_Witness ==
  /\ Completed
  /\ req.resp.status = "accepted"
  /\ ~req.generated
  /\ req.saved
  /\ stateStore[req.adw_id] = StateData(req.adw_id, "7", Absent, Absent)

\* C8: a request is answered "accepted" exactly when it launched a process,
\* one command per request, and the launches equal the accepted responses.
C8_OneProcessPerAccepted ==
  /\ nLaunched = nAccepted
  /\ (pc = "idle" /\ nRequests > 0) =>
       ((req.resp.status = "accepted") <=> (req.cmd # NoCmd))
  /\ (pc = "guard") => req.cmd = NoCmd
  /\ Cardinality(procs) <= nLaunched
C8_Witness ==
  /\ Completed
  /\ nAccepted = 2
  /\ nLaunched = 2
  /\ nRequests = 3
  /\ req.resp.status = "error"

\* C9: with a selector W and an identifier X, explicit or recovered, the
\* command is W's script with the issue number and X, and the accepted
\* response carries W, the issue number and X.
C9_CommandAndResponse ==
  (/\ ClassifierRan
   /\ YieldedWorkflow # None
   /\ YieldedId # None \/ (YieldedWorkflow = "adw_build" /\ req.detected # None)) =>
    LET W == YieldedWorkflow
        X == IF YieldedId # None THEN YieldedId ELSE req.detected
    IN  /\ req.workflow = W
        /\ req.provided_adw_id = X
        /\ req.consulted <=> YieldedId = None
        /\ req.raised = "none" => req.resp.status = "accepted"
        /\ req.resp.status = "accepted" =>
             /\ req.cmd = <<"uv", "run", ScriptOf(W), "7", X>>
             /\ req.resp = [status |-> "accepted", issue |-> 7, adw_id |-> X,
                            workflow |-> W]
C9_Witness ==
  /\ Completed
  /\ req.consulted
  /\ req.resp.status = "accepted"
  /\ req.resp.adw_id = UuidB
  /\ req.cmd = <<"uv", "run", "adws/adw_build.py", "7", UuidB>>

\* C10 as stated: a selector other than adw_build without an identifier is
\* always answered "accepted", with a generated identifier.
C10_Original ==
  (ClassifierRan /\ YieldedWorkflow \notin {None, "adw_build"} /\ YieldedId = None) =>
    /\ req.resp.status = "accepted"
    /\ req.generated
    /\ ~req.consulted
\* C10 as amended: such an event gets a generated identifier without recovery
\* and is never ignored; it is answered "accepted", with the selected workflow
\* launched under that identifier, unless setup_logger or Popen raises, and
\* then "error".
C10_NewRunGetsFreshId ==
  (ClassifierRan /\ YieldedWorkflow \notin {None, "adw_build"} /\ YieldedId = None) =>
    /\ req.workflow = YieldedWorkflow
    /\ req.generated
    /\ req.adw_id \in GenIds
    /\ ~req.consulted
    /\ ~req.saved
    /\ req.resp.status # "ignored"
    /\ req.raised \in {"none", "logger", "popen"}
    /\ req.raised = "none" =>
         /\ req.resp = [status |-> "accepted", issue |-> 7, adw_id |-> req.adw_id,
                        workflow |-> req.workflow]
         /\ req.cmd = <<"uv", "run", ScriptOf(req.workflow), "7", req.adw_id>>
C10_Witness ==
  /\ Completed
  /\ req.ev.event_type = "issues"
  /\ req.ev.body = <<"please", "adw_plan_build">>
  /\ req.generated
  /\ req.resp.status = "accepted"
  /\ req.resp.workflow = "adw_plan_build"
  /\ req.resp.adw_id = GenIdOf[2]

\* ------------------------------------------------------------ C11
\* The recovery has been consulted and could not read the comments: the
\* repository path is unknown, the fetch raised, or there are no comments.
RecoveryFailed ==
  /\ req.consulted
  /\ (~req.fetch.repo_ok \/ ~req.fetch.fetch_ok \/ req.fetch.list = <<>>)

\* C11: find_latest_adw_id_in_issue never raises. When the repository path is
\* unknown, the fetch fails or returns nothing, it returns None, and the handler
\* then answers "ignored" through the missing-identifier path, after posting
\* the missing-identifier comment, never "error".
C11_RecoveryNeverRaises ==
  RecoveryFailed =>
    /\ req.detected = None
    /\ req.raised = "none"
    /\ req.workflow = None
    /\ req.resp.status = "ignored"
    /\ Len(req.posted) = 1 /\ req.posted[1].kind = "missing_id"
    /\ req.cmd = NoCmd

C11_Witness ==
  /\ Completed
  /\ req.consulted /\ req.fetch.repo_ok /\ ~req.fetch.fetch_ok
  /\ req.resp.status = "ignored"

\* ------------------------------------------------------------ C12
PostFailed(r) == \E i \in DOMAIN r.posted : ~r.posted[i].ok
\* The same request with every posting having succeeded.
AllPosted(r) ==
  IF r.posted = <<>> THEN r
  ELSE [r EXCEPT !.posted = [i \in DOMAIN r.posted |-> [r.posted[i] EXCEPT !.ok = TRUE]]]

\* The handler's outcomes for the event and the fetch of request r, from the
\* state (store, fresh), when every posting succeeds.
OutcomesAllPosted(r, store, fresh) ==
  UNION { LET r0 == ClassifiedRequest(r.ev, c)
          IN  IF c.raised # "none" THEN {}
              ELSE IF NeedsRecovery(r0.workflow, r0.provided_adw_id)
              THEN IF r.fetch \in RecoveryInputs
                   THEN AfterResolve(Recover(r0, r.fetch, TRUE), store, fresh)
                   ELSE {}
              ELSE AfterResolve(r0, store, fresh)
        : c \in ClassifyEvent(r.ev) }

\* C12: a failed posting of the auto-detection, missing-identifier or start
\* comment changes nothing else. Whenever a step of the handler ends with a
\* failed posting, the same step with every posting succeeding was possible
\* from the same state and gives the same request (workflow, identifier,
\* launch command, state write, response), the same store and the same position.
C12_PostingFailureHarmless ==
  [][ (req' # req /\ PostFailed(req')) =>
        IF pc = "idle"
        THEN \E o \in OutcomesAllPosted(req', stateStore, GenIdOf[nGenerated + 1]) :
               o.r = AllPosted(req') /\ o.store = stateStore' /\ o.pc = pc'
        ELSE \E o \in GuardOutcomes(AllPosted(req), stateStore) :
               o.r = AllPosted(req') /\ o.store = stateStore' /\ o.pc = pc' ]_vars

C12_Witness ==
  /\ Completed
  /\ Len(req.posted) = 2
  /\ req.posted[1].kind = "auto_detected" /\ ~req.posted[1].ok
  /\ req.posted[2].kind = "start" /\ ~req.posted[2].ok
  /\ req.saved
  /\ req.cmd # NoCmd
  /\ req.resp.status = "accepted"

\* ------------------------------------------------------------ C13
\* A step of the handler (the planning phase moves neither counter nor position).
HandlerStep == nRequests' # nRequests \/ pc' # pc

\* C13: a step of the handler for an event that resolves to one identifier
\* leaves the persisted record of every other identifier as it was; an event
\* that resolves to no identifier leaves every record as it was.
C13_OtherRecordsUntouched ==
  [][ HandlerStep =>
        \A id \in AllIds : id # req'.adw_id => stateStore'[id] = stateStore[id] ]_vars

C13_Witness ==
  /\ Completed
  /\ req.saved
  /\ req.adw_id = ShortA
  /\ stateStore[ShortA].adw_id = ShortA
  /\ stateStore[UuidA].adw_id = UuidA
  /\ HasBranch(stateStore[UuidA])

\* ------------------------------------------------------------ C14
\* C14: the continuation guard is a check-then-write that is not atomic. The
\* check is made on the record as the handler read it, not on the record as it
\* is at the save: a request for a provided identifier that got past the save
\* has written its state exactly when the record it read held no branch_name,
\* what it wrote holds no branch_name, and a record that held a branch_name at
\* the save is overwritten only when the branch_name was written after the read.
\* The launch does not depend on the guard, so duplicate deliveries each launch.
C14_GuardNotAtomic ==
  /\ (Completed /\ req.provided_adw_id # None
        /\ req.raised \in {"none", "logger", "popen"}) =>
       /\ req.saved <=> ~req.had_branch
       /\ req.saved => ~HasBranch(req.state_data)
       /\ req.raised = "none" => req.cmd # NoCmd
  /\ req.clobbered => (req.saved /\ ~req.had_branch)

\* Two deliveries of the same command; the planning phase of the first wrote
\* branch_name between the read and the save of the second, whose
\* initialization then replaced the record, and both launched a process.
C14_Witness ==
  /\ Completed
  /\ req.clobbered
  /\ ~HasBranch(stateStore[req.adw_id])
  /\ nRequests = 2 /\ nAccepted = 2 /\ nLaunched = 2
  /\ procs = {req.cmd}

\* ------------------------------------------------------------ C15
\* The classifier returned for the request in req, which is at the guard or done.
ClassifierReturned ==
  /\ pc = "guard" \/ Completed
  /\ req.ev.json_ok
  /\ TriggeringPair(req.ev)
  /\ req.ev.body # Null
  /\ HasTriggerText(req.ev.body)
  /\ ~(req.ev.event_type = "issue_comment"
        /\ \E i \in DOMAIN req.ev.body : req.ev.body[i] = "[ADW-BOT]")
  /\ req.raised # "classify"
BuildWithoutId == YieldedWorkflow = "adw_build" /\ YieldedId = None

\* C15: the recovery is consulted only for a request classified as adw_build
\* without an identifier. For every other classification no comments are
\* fetched and no recovery comment is posted, and an identifier given in the
\* text is the one the request runs with, never one taken from the comments.
C15_RecoveryOnlyForBuildWithoutId ==
  /\ req.consulted => (ClassifierReturned /\ BuildWithoutId)
  /\ (ClassifierReturned /\ ~BuildWithoutId) =>
       /\ ~req.consulted
       /\ req.fetch = NoFetch
       /\ req.detected = None
       /\ \A i \in DOMAIN req.posted : req.posted[i].kind = "start"
       /\ req.provided_adw_id = YieldedId
  /\ (ClassifierReturned /\ YieldedId # None) =>
       /\ req.provided_adw_id = YieldedId
       /\ req.adw_id \in {YieldedId, None}

C15_Witness ==
  /\ Completed
  /\ req.ev.body = <<"adw_build", UuidA>>
  /\ ~req.consulted
  /\ req.adw_id = UuidA
  /\ req.resp.status = "accepted"

\* ------------------------------------------------------------ C16
\* The newest comment consists of an 8-character identifier in one of the
\* three documented forms.
NewestIsShortForm ==
  /\ found # "unset"
  /\ comments.repo_ok /\ comments.fetch_ok
  /\ comments.list # <<>>
  /\ \E k \in {"json", "explicit", "prefix"} :
       Head(comments.list) = <<Token(k, ShortA)>>

\* C16: the scan recognises an 8-character identifier in each of the three
\* documented forms ("adw_id": "75de9bea", adw_id: 75de9bea, 75de9bea_ops:):
\* when the newest comment holds one, the scan returns that identifier.
C16_ShortIdsRecognised == NewestIsShortForm => found = ShortA

\* ------------------------------------------------------------ C17
OtherFields == {"branch_name", "plan_file", "issue_class"}

FixedScripts == {ScriptOf(w) : w \in AVAILABLE_WORKFLOWS}

\* C19: the workflow of every dispatched run is one of the five fixed names:
\* every launched command runs the script of one of them, and the accepted
\* response names one of them.
C19_WorkflowInFixedSet ==
  /\ \A c \in procs : c[3] \in FixedScripts
  /\ req.cmd # NoCmd =>
       (req.workflow \in AVAILABLE_WORKFLOWS /\ req.cmd[3] = ScriptOf(req.workflow))
  /\ req.resp.status = "accepted" => req.resp.workflow \in AVAILABLE_WORKFLOWS

C19_Witness ==
  /\ Completed
  /\ req.ev.body = <<"adw_test">>
  /\ req.resp.status = "accepted"
  /\ Cardinality({c[3] : c \in procs}) = 3

\* ------------------------------------------------------------ C20
Served == health.resp # NoHealth.resp
HasKeys(body, keys) == keys \subseteq DOMAIN body

\* C20 as stated: every body returned by GET /health, also after a timeout or
\* a failure to run the script, holds status, service and a health_check
\* object with success, warnings and errors.
C20_Original ==
  Served =>
    /\ HasKeys(health.resp, {"status", "service", "health_check"})
    /\ HasKeys(health.resp.health_check, {"success", "warnings", "errors"})

\* C20, amended: every body returned by GET /health holds status and service.
\* When the script ran to its end, whatever its exit code, the body holds a
\* health_check object with success, warnings and errors, and no error; after
\* a timeout or a failure to run the script the body holds status "unhealthy"
\* and an error message, and no health_check object.
C20_HealthBodyShape ==
  Served =>
    /\ HasKeys(health.resp, {"status", "service"})
    /\ health.resp.service = SERVICE
    /\ health.run.kind = "completed" =>
         /\ HasKeys(health.resp, {"health_check"})
         /\ HasKeys(health.resp.health_check, {"success", "warnings", "errors"})
         /\ "error" \notin DOMAIN health.resp
    /\ health.run.kind \in {"timeout", "failed"} =>
         /\ health.resp.status = "unhealthy"
         /\ HasKeys(health.resp, {"error"})
         /\ "health_check" \notin DOMAIN health.resp

C20_Witness ==
  /\ Served
  /\ health.run.kind = "timeout"
  /\ health.resp = [status |-> "unhealthy", service |-> SERVICE,
                    error |-> "Health check timed out"]

\* ------------------------------------------------------------ C21
\* The place of a form in the order of preference.
Rank(kind) == CHOOSE k \in DOMAIN Patterns : Patterns[k] = kind
\* The newest comment holds two forms, each around a full identifier.
NewestHoldsTwoForms ==
  /\ found # "unset"
  /\ comments.repo_ok /\ comments.fetch_ok
  /\ comments.list # <<>>
  /\ Head(comments.list) \in TokenPairs

\* C21: when one comment matches two patterns with different identifiers, the
\* scan returns the identifier of the pattern of higher priority (JSON field,
\* then explicit mention, then prefixed label), wherever the two stand in the
\* comment.
C21_PatternPriorityWithinComment ==
  NewestHoldsTwoForms =>
    LET body == Head(comments.list)
        best == IF Rank(body[1].kind) < Rank(body[2].kind) THEN body[1] ELSE body[2]
    IN  found = best.id

\* The prefixed label stands first in the comment, the JSON field second.
C21_Witness ==
  /\ NewestHoldsTwoForms
  /\ Head(comments.list) = <<Token("prefix", UuidB), Token("json", UuidA)>>
  /\ found = UuidA

\* ------------------------------------------------------------ C22
\* The comments the handler may post.
HandlerComments ==
  {AutoDetectedComment(id) : id \in AllIds}
  \cup {MissingIdComment}
  \cup {StartComment(w, id) : w \in AVAILABLE_WORKFLOWS, id \in AllIds}
\* The request in req is the delivery of a comment the handler posted.
PostedCameBack ==
  /\ req.ev.json_ok
  /\ req.ev.event_type = "issue_comment" /\ req.ev.action = "created"
  /\ req.ev.body \in HandlerComments

\* C22: every comment the handler posts holds the bot marker, and the
\* delivery of such a comment is answered "ignored" with no classification, no
\* recovery, no launch and no comment posted, so that no chain of deliveries
\* starts from a comment of the handler.
C22_NoFeedbackLoop ==
  /\ \A i \in DOMAIN req.posted :
       /\ req.posted[i].body \in HandlerComments
       /\ BotMarkerIn(req.posted[i].body)
  /\ (PostedCameBack /\ pc = "idle") =>
       /\ req.resp.status = "ignored"
       /\ req.workflow = None
       /\ ~req.consulted
       /\ req.posted = <<>>
       /\ req.cmd = NoCmd
       /\ ~req.saved

\* The start comment of an accepted request has come back and was ignored.
C22_Witness ==
  /\ Completed
  /\ PostedCameBack
  /\ req.ev.body = StartComment("adw_plan_build", GenIdOf[1])
  /\ nRequests = 2 /\ nLaunched = 1
  /\ req.resp.status = "ignored"

\* ------------------------------------------------------------ C23
\* C23: a request answered "ignored" changes no persisted record and launches
\* no process. It posts nothing, except the one missing-identifier comment
\* when adw_build was asked for without an identifier and the recovery found
\* none.
C23_IgnoredHasNoEffect ==
  [][ (HandlerStep /\ req'.resp.status = "ignored") =>
        /\ stateStore' = stateStore
        /\ procs' = procs
        /\ nLaunched' = nLaunched /\ nAccepted' = nAccepted
        /\ req'.cmd = NoCmd
        /\ ~req'.saved
        /\ \/ req'.posted = <<>>
           \/ /\ Len(req'.posted) = 1
              /\ req'.posted[1].kind = "missing_id"
              /\ req'.posted[1].body = MissingIdComment
              /\ req'.consulted /\ req'.detected = None
              /\ extract_adw_info(req'.ev.body) = <<"adw_build", None>> ]_vars

\* An ignored adw_build without identifier, while a record and a process of
\* an earlier request exist.
C23_Witness ==
  /\ Completed
  /\ req.resp.status = "ignored"
  /\ Len(req.posted) = 1 /\ req.posted[1].kind = "missing_id" /\ req.posted[1].ok
  /\ stateStore[UuidA] # NoState
  /\ procs # {}

\* ------------------------------------------------------------ C24
\* C24: for a provided or recovered identifier the state is read, checked and,
\* if need be, initialized before the process is launched: nothing is launched
\* and no start comment is posted while the request stands at the guard, a
\* launch implies the guard was passed, and a failure of the load or the save
\* launches nothing. The "error" response does not undo the initialization:
\* when a later step fails after the save, the record stays persisted for the
\* identifier although no process was launched for the request.
C24_StateBeforeLaunchNoRollback ==
  /\ pc = "guard" =>
       /\ req.provided_adw_id # None
       /\ req.cmd = NoCmd /\ ~req.saved
       /\ \A i \in DOMAIN req.posted : req.posted[i].kind # "start"
  /\ (pc = "idle" /\ req.provided_adw_id # None /\ req.cmd # NoCmd) =>
       /\ req.state_data # NoData
       /\ req.saved \/ req.had_branch
  /\ req.raised \in {"state_load", "state_save"} => (req.cmd = NoCmd /\ ~req.saved)
  /\ (pc = "idle" /\ req.saved /\ req.raised # "none") =>
       /\ req.raised \in {"logger", "popen"}
       /\ req.resp.status = "error"
       /\ req.cmd = NoCmd
       /\ stateStore[req.adw_id] # NoState
       /\ stateStore[req.adw_id].adw_id = req.adw_id
       /\ stateStore[req.adw_id].issue_number = Str(req.ev.issue_number)

\* The launch failed after the save: the record is there, no process is.
C24_Witness ==
  /\ Completed
  /\ req.saved
  /\ req.raised = "popen"
  /\ req.resp.status = "error"
  /\ stateStore[req.adw_id].adw_id = req.adw_id
  /\ \A c \in procs : c[5] # req.adw_id

\* ------------------------------------------------------------ C25
\* C25: the status is "healthy" exactly when the script ran to its end within
\* the timeout and returned exit code 0, and "unhealthy" in every other case
\* (another exit code, a timeout, a failure to run it); in the body of a run
\* that ended, health_check.success is true exactly when the status is
\* "healthy".
C25_HealthyIffExitZero ==
  Served =>
    /\ health.resp.status \in {"healthy", "unhealthy"}
    /\ health.resp.status = "healthy" <=>
         (health.run.kind = "completed" /\ health.run.returncode = 0)
    /\ health.run.kind = "completed" =>
         (health.resp.health_check.success <=> health.resp.status = "healthy")

\* Exit code 0 although the output lists an error: healthy all the same.
C25_Witness ==
  /\ Served
  /\ health.run.kind = "completed" /\ health.run.returncode = 0
  /\ health.resp.status = "healthy"
  /\ health.resp.health_check.success
  /\ health.resp.health_check.errors # <<>>

\* ------------------------------------------------------------ C26
HoldsHeader(line) ==
  HasWarningsHeader(line) \/ HasErrorsHeader(line) \/ HasNextStepsHeader(line)
\* The place of the first Next Steps header, or past the end without one.
StopAt(out) ==
  LET at == {i \in DOMAIN out : HasNextStepsHeader(out[i])}
  IN  IF at = {} THEN Len(out) + 1 ELSE CHOOSE i \in at : \A j \in at : i <= j
\* The section a line stands in: that of the last header before it.
SectionAt(out, i) ==
  LET hs == {j \in DOMAIN out : j < i /\ (HasWarningsHeader(out[j]) \/ HasErrorsHeader(out[j]))}
  IN  IF hs = {} THEN "none"
      ELSE LET j == CHOOSE x \in hs : \A y \in hs : y <= x
           IN  IF HasWarningsHeader(out[j]) THEN "warnings" ELSE "errors"
\* The texts of the item lines of a section before the stop, in their order.
ItemsOf(out, section) ==
  LET idx == SelectSeq([i \in DOMAIN out |-> i],
                       LAMBDA i : /\ i < StopAt(out)
                                  /\ IsItem(out[i]) /\ ~HoldsHeader(out[i])
                                  /\ SectionAt(out, i) = section)
  IN  [k \in DOMAIN idx |-> ItemText(out[idx[k]])]

\* C26: the scan has three modes. The warnings are the item lines (beginning
\* with "-") that stand before the first Next Steps header with the Warnings
\* header as the last header before them, the errors those with the Errors
\* header as the last header before them; an item line before any header, or
\* at or after the first Next Steps header, is in neither list, and no line is
\* in both.
C26_ThreeModeScanner ==
  (Served /\ health.run.kind = "completed") =>
    LET out == health.run.stdout
        hc == health.resp.health_check
    IN  /\ hc.warnings = ItemsOf(out, "warnings")
        /\ hc.errors = ItemsOf(out, "errors")
        /\ Len(hc.warnings) + Len(hc.errors)
             <= Cardinality({i \in DOMAIN out : i < StopAt(out) /\ IsItem(out[i])
                                                 /\ SectionAt(out, i) # "none"})

\* An item before any header is dropped, the item after the Warnings header kept.
C26_Witness ==
  /\ Served
  /\ health.run.stdout = <<"- no token", WarningsHeader, "  - disk low">>
  /\ health.resp.health_check.warnings = <<"disk low">>
  /\ health.resp.health_check.errors = <<>>
====
